---- MODULE Spec2Model ----
(***************************************************************************)
(* Model of the peer session layer of the networking crate                 *)
(* (networking/src/peer.rs): PeerStateMachine::provide_data and            *)
(* PeerStateMachine::poll, the one-shot channels they hold, the router     *)
(* mapping, and the outbound Subscriber queue they drain.                  *)
(***************************************************************************)
EXTENDS Integers, Sequences, FiniteSets, TLC

\* ---------------------------------------------------------------- bounds
MaxChannel == 2     \* channel ids 1..MaxChannel may be registered
BufSize == 2        \* peer_buffer_size: capacity of the outbound queue
MaxPub == 1         \* cap on the Subscriber's producer count
MaxNet == 1         \* datagrams in flight towards one address
MaxLag == 1         \* cap on a subscription's lag counter

Peers == {"client", "server"}
Other(p) == IF p = "client" THEN "server" ELSE "client"

\* NonZeroU8 channel ids the application may register
Channels == 1..MaxChannel

\* payload bytes: 0, every registrable channel id, and one value beyond
Bytes == 0..(MaxChannel + 1)

\* every payload the transport hands to provide_data: empty, one byte, or
\* one byte followed by a trailing byte
Datagrams == {<<>>} \cup {<<b>> : b \in Bytes} \cup {<<b, c>> : b, c \in Bytes}

\* packets application code pushes into the outbound subscription: one data
\* byte followed by the channel byte (poll never looks inside a packet, so
\* two distinguishable packets are enough)
OutPackets == {<<b, 1>> : b \in {0, MaxChannel + 1}}

\* the DirectSubscriptions of one Subscriber that application code can hold:
\* the one created with the handle and a clone of it
Handles == {"packets_to_send", "clone"}

\* ------------------------------------------------------- control messages
SpecialMessage == {"Negotiate", "Ack", "Disconnect"}

\* the codec writes a fieldless three-variant enum as one byte holding the
\* index of the variant in the declaration
tag == [m \in SpecialMessage |->
           CASE m = "Negotiate" -> 0 [] m = "Ack" -> 1 [] OTHER -> 2]

VARIABLES
    peers,    \* address -> PeerStateMachine with the endpoints it shares
    net,      \* address -> datagrams in flight towards that address
    hist,     \* address -> what has happened to the peer so far
    last      \* the most recent call and what it did

vars == <<peers, net, hist, last>>

\* variant: the sender frames a control message the way Connected frames
\* data, with a trailing channel byte 0
encodeFramed(m) == <<tag[m], 0>>

\* bitcode::encode(&SpecialMessage)
encode(m) == <<tag[m]>>

\* bitcode::decode::<SpecialMessage>: exactly the one byte of a variant
decode(data) ==
    IF Len(data) = 1 /\ \E m \in SpecialMessage : tag[m] = data[1]
    THEN CHOOSE m \in SpecialMessage : tag[m] = data[1]
    ELSE "Err"

\* ------------------------------------------------------------ peer record
\* state / req        : the PeerStateMachine variant and its request
\* peer_rx, peer_sent : the one-shot behind peer_sender (Connecting)
\* negotiation        : the one-shot behind negotiation_recv
\* offered            : the mapping the application put on that one-shot
\* echo_rx, echo_sent : the one-shot behind client_negotiation_sender
\* packets_router     : registered channel ids (Connected and
\*                      ServerAwaitNegotiateResponse)
\* valid              : per channel, what the publisher's valid() returns
\* queue, pub_count   : packets_sub's buffered packets and producer count
\* retained           : FALSE once a call returned Drop (entry removed)
\* handle             : the NetworkPeer the application received through
\*                      peer_sender (its sinks are the negotiation one-shot
\*                      and the queue of this record)
\* held, lag          : the DirectSubscriptions of packets_sub that exist,
\*                      and the lag counter of each
\* registered         : the subscriptions a Publisher has accepted
\* draining           : TRUE while a poll is inside the Connected drain loop
NoHandle == [remote_addr |-> "None", quirk |-> "None"]

NoLag == [h \in Handles |-> 0]

ConnectingPeer ==
    [state |-> "Connecting", req |-> "None",
     peer_rx |-> "Alive", peer_sent |-> FALSE,
     negotiation |-> "None", offered |-> {},
     echo_rx |-> "None", echo_sent |-> FALSE,
     packets_router |-> {}, valid |-> [c \in Channels |-> TRUE],
     queue |-> <<>>, pub_count |-> 0, retained |-> TRUE, handle |-> NoHandle,
     held |-> {}, lag |-> NoLag, registered |-> {}, draining |-> FALSE]

ServerPeer ==
    [state |-> "AwaitingNegotiation", req |-> "ServerNegotiation",
     peer_rx |-> "None", peer_sent |-> FALSE,
     negotiation |-> "Empty", offered |-> {},
     echo_rx |-> "Alive", echo_sent |-> FALSE,
     packets_router |-> {}, valid |-> [c \in Channels |-> TRUE],
     queue |-> <<>>, pub_count |-> 0, retained |-> TRUE, handle |-> NoHandle,
     held |-> {"packets_to_send"}, lag |-> NoLag, registered |-> {},
     draining |-> FALSE]

AbsentPeer ==
    [ConnectingPeer EXCEPT !.state = "Absent", !.peer_rx = "None", !.retained = FALSE]

InitPeer(p) == IF p = "client" THEN ConnectingPeer ELSE ServerPeer

\* result of one call on a peer record: the record afterwards and effects
Outcome(s, ret, sent, setter, signalled) ==
    [s |-> s, ret |-> ret, sent |-> sent, setter |-> setter, signalled |-> signalled]

\* ---------------------------------------------------------- provide_data

\* variant: Connecting strips a trailing channel byte before decoding
ProvideConnectingFramed(s, data, addr) ==
    LET msg == IF Len(data) > 0 /\ data[Len(data)] = 0
               THEN decode(SubSeq(data, 1, Len(data) - 1)) ELSE "Err"
    IN
    CASE msg = "Disconnect" -> Outcome(s, "Drop", <<>>, {}, {})
      [] msg = "Negotiate" ->
            LET sendOk == s.peer_rx = "Alive"
                t == [s EXCEPT !.state = "AwaitingNegotiation",
                               !.req = "ClientNegotiation",
                               !.peer_sent = sendOk,
                               !.queue = <<>>, !.pub_count = 0,
                               !.handle = IF sendOk
                                          THEN [remote_addr |-> addr, quirk |-> "ClientSide"]
                                          ELSE NoHandle,
                               !.held = IF sendOk THEN {"packets_to_send"} ELSE {},
                               !.lag = NoLag, !.registered = {},
                               !.negotiation = IF sendOk THEN "Empty" ELSE "Closed"]
            IN  Outcome(t, IF sendOk THEN "Retain" ELSE "Drop", <<>>, {},
                        IF sendOk THEN {"peer_sender"} ELSE {})
      [] msg = "Ack" ->
            Outcome(s, IF s.peer_rx = "Dropped" THEN "Drop" ELSE "Retain", <<>>, {}, {})
      [] OTHER -> Outcome(s, "Retain", <<>>, {}, {})

\* variant: a handle nobody is waiting for does not cost the peer its place
ProvideConnectingKeepsOnFail(s, data, addr) ==
    LET msg == decode(data) IN
    CASE msg = "Disconnect" -> Outcome(s, "Drop", <<>>, {}, {})
      [] msg = "Negotiate" ->
            LET sendOk == s.peer_rx = "Alive"
                t == [s EXCEPT !.state = "AwaitingNegotiation",
                               !.req = "ClientNegotiation",
                               !.peer_sent = sendOk,
                               !.queue = <<>>, !.pub_count = 0,
                               !.handle = IF sendOk
                                          THEN [remote_addr |-> addr, quirk |-> "ClientSide"]
                                          ELSE NoHandle,
                               !.held = IF sendOk THEN {"packets_to_send"} ELSE {},
                               !.lag = NoLag, !.registered = {},
                               !.negotiation = IF sendOk THEN "Empty" ELSE "Closed"]
            IN  Outcome(t, "Retain", <<>>, {}, IF sendOk THEN {"peer_sender"} ELSE {})
      [] msg = "Ack" ->
            Outcome(s, IF s.peer_rx = "Dropped" THEN "Drop" ELSE "Retain", <<>>, {}, {})
      [] OTHER -> Outcome(s, "Retain", <<>>, {}, {})


\* PeerStateMachine::Connecting arm: the whole payload is decoded
ProvideConnecting(s, data, addr) ==
    LET msg == decode(data) IN
    CASE msg = "Disconnect" -> Outcome(s, "Drop", <<>>, {}, {})
      [] msg = "Negotiate" ->
            LET sendOk == s.peer_rx = "Alive"
                t == [s EXCEPT !.state = "AwaitingNegotiation",
                               !.req = "ClientNegotiation",
                               !.peer_sent = sendOk,
                               !.queue = <<>>, !.pub_count = 0,
                               !.handle = IF sendOk
                                          THEN [remote_addr |-> addr, quirk |-> "ClientSide"]
                                          ELSE NoHandle,
                               !.held = IF sendOk THEN {"packets_to_send"} ELSE {},
                               !.lag = NoLag, !.registered = {},
                               !.negotiation = IF sendOk THEN "Empty" ELSE "Closed"]
            IN  Outcome(t, IF sendOk THEN "Retain" ELSE "Drop", <<>>, {},
                        IF sendOk THEN {"peer_sender"} ELSE {})
      [] msg = "Ack" ->
            Outcome(s, IF s.peer_rx = "Dropped" THEN "Drop" ELSE "Retain", <<>>, {}, {})
      [] OTHER -> Outcome(s, "Retain", <<>>, {}, {})


\* variant: a Negotiate that arrives before the mapping was taken connects
AwaitingOnNegotiateEarly(s) ==
    IF s.req \in {"ServerNegotiation", "ServerAwaitNegotiateResponse"} /\ s.echo_rx = "Alive"
    THEN Outcome([s EXCEPT !.state = "Connected", !.req = "None", !.echo_sent = TRUE],
                 "Retain", <<>>, {}, {"client_negotiation_sender"})
    ELSE Outcome(s, IF s.req = "ClientNegotiation" THEN "Retain" ELSE "Drop", <<>>, {}, {})

\* variant: the echo connects the server with an empty router
AwaitingOnNegotiateEmptyRouter(s) ==
    CASE s.req = "ServerNegotiation" -> Outcome(s, "Retain", <<>>, {}, {})
      [] s.req = "ServerAwaitNegotiateResponse" ->
            IF s.echo_rx = "Alive"
            THEN Outcome([s EXCEPT !.state = "Connected", !.req = "None",
                                   !.echo_sent = TRUE, !.packets_router = {}],
                         "Retain", <<>>, {}, {"client_negotiation_sender"})
            ELSE Outcome(s, "Drop", <<>>, {}, {})
      [] OTHER -> Outcome(s, "Retain", <<>>, {}, {})

\* variant: an early Negotiate already signals the echo one-shot
AwaitingOnNegotiateSignals(s) ==
    CASE s.req = "ServerNegotiation" ->
            IF s.echo_rx = "Alive"
            THEN Outcome([s EXCEPT !.echo_sent = TRUE], "Retain", <<>>, {},
                         {"client_negotiation_sender"})
            ELSE Outcome(s, "Retain", <<>>, {}, {})
      [] s.req = "ServerAwaitNegotiateResponse" ->
            IF s.echo_rx = "Alive"
            THEN Outcome([s EXCEPT !.state = "Connected", !.req = "None",
                                   !.echo_sent = TRUE],
                         "Retain", <<>>, {}, {"client_negotiation_sender"})
            ELSE Outcome(s, "Drop", <<>>, {}, {})
      [] OTHER -> Outcome(s, "Retain", <<>>, {}, {})


\* Negotiate received in AwaitingNegotiation, by request
AwaitingOnNegotiate(s) ==
    CASE s.req = "ServerNegotiation" -> Outcome(s, "Retain", <<>>, {}, {})
      [] s.req = "ServerAwaitNegotiateResponse" ->
            IF s.echo_rx = "Alive"
            THEN Outcome([s EXCEPT !.state = "Connected", !.req = "None",
                                   !.echo_sent = TRUE],
                         "Retain", <<>>, {}, {"client_negotiation_sender"})
            ELSE Outcome(s, "Drop", <<>>, {}, {})
      [] OTHER -> Outcome(s, "Retain", <<>>, {}, {})

\* variant: Ack checks the echo one-shot in both server sub-states
AwaitingOnAckAnyServer(s) ==
    IF s.echo_rx = "Dropped"
    THEN Outcome(s, "Drop", <<>>, {}, {})
    ELSE Outcome(s, "Retain", <<>>, {}, {})


\* Ack received in AwaitingNegotiation
AwaitingOnAck(s) ==
    IF s.req = "ServerAwaitNegotiateResponse" /\ s.echo_rx = "Dropped"
    THEN Outcome(s, "Drop", <<>>, {}, {})
    ELSE Outcome(s, "Retain", <<>>, {}, {})

\* variant: a payload that does not decode costs the peer its place
ProvideAwaitingDropsOnError(s, data) ==
    LET msg == decode(data) IN
    CASE msg = "Disconnect" -> Outcome(s, "Drop", <<>>, {}, {})
      [] msg = "Negotiate" -> AwaitingOnNegotiate(s)
      [] msg = "Ack" -> AwaitingOnAck(s)
      [] OTHER -> Outcome(s, "Drop", <<>>, {}, {})

\* PeerStateMachine::AwaitingNegotiation arm: the whole payload is decoded
ProvideAwaiting(s, data) ==
    LET msg == decode(data) IN
    CASE msg = "Disconnect" -> Outcome(s, "Drop", <<>>, {}, {})
      [] msg = "Negotiate" -> AwaitingOnNegotiate(s)
      [] msg = "Ack" -> AwaitingOnAck(s)
      [] OTHER -> Outcome(s, "Retain", <<>>, {}, {})


\* variant: Disconnect in Connected is logged like any other control message
ConnectedControlIgnores(s, body) ==
    Outcome(s, "Retain", <<>>, {}, {})

\* variant: a control message that does not decode ends the connection
ConnectedControlDropsOnError(s, body) ==
    IF decode(body) \in {"Disconnect", "Err"}
    THEN Outcome(s, "Drop", <<>>, {}, {})
    ELSE Outcome(s, "Retain", <<>>, {}, {})


\* variant: a Negotiate on channel 0 makes a Connected peer negotiate again
ConnectedControlRenegotiates(s, body) ==
    CASE decode(body) = "Disconnect" -> Outcome(s, "Drop", <<>>, {}, {})
      [] decode(body) = "Negotiate" ->
            Outcome([s EXCEPT !.state = "AwaitingNegotiation",
                              !.req = "ServerAwaitNegotiateResponse"],
                    "Retain", <<>>, {}, {})
      [] OTHER -> Outcome(s, "Retain", <<>>, {}, {})

\* channel 0 in Connected: the payload without its last byte is decoded
ConnectedControl(s, body) ==
    IF decode(body) = "Disconnect"
    THEN Outcome(s, "Drop", <<>>, {}, {})
    ELSE Outcome(s, "Retain", <<>>, {}, {})


\* variant: a dead entry is skipped but stays registered
RouteKeepsDead(s, channel, body) ==
    IF channel \in s.packets_router /\ s.valid[channel]
    THEN Outcome(s, "Retain", <<>>, {<<channel, body>>}, {})
    ELSE Outcome(s, "Retain", <<>>, {}, {})

\* variant: a vacant entry is filled in on first use
RouteInsertsVacant(s, channel, body) ==
    IF channel \in s.packets_router
    THEN IF s.valid[channel]
         THEN Outcome(s, "Retain", <<>>, {<<channel, body>>}, {})
         ELSE Outcome([s EXCEPT !.packets_router = @ \ {channel}], "Retain", <<>>, {}, {})
    ELSE Outcome([s EXCEPT !.packets_router = @ \cup {channel}], "Retain", <<>>, {}, {})

\* variant: the setter gets the payload with its channel byte still on
RouteKeepsChannelByte(s, channel, body) ==
    IF channel \in s.packets_router
    THEN IF s.valid[channel]
         THEN Outcome(s, "Retain", <<>>, {<<channel, Append(body, channel)>>}, {})
         ELSE Outcome([s EXCEPT !.packets_router = @ \ {channel}], "Retain", <<>>, {}, {})
    ELSE Outcome(s, "Retain", <<>>, {}, {})


\* packets_router.entry(channel) in Connected
Route(s, channel, body) ==
    IF channel \in s.packets_router
    THEN IF s.valid[channel]
         THEN Outcome(s, "Retain", <<>>, {<<channel, body>>}, {})
         ELSE Outcome([s EXCEPT !.packets_router = @ \ {channel}], "Retain", <<>>, {}, {})
    ELSE Outcome(s, "Retain", <<>>, {}, {})

\* PeerStateMachine::Connected arm: data.last().unwrap() panics on an empty
\* payload; otherwise the last byte is the channel
ProvideConnected(s, data) ==
    IF Len(data) = 0
    THEN Outcome(s, "Panic", <<>>, {}, {})
    ELSE LET channel == data[Len(data)]
             body == SubSeq(data, 1, Len(data) - 1)
         IN  IF channel = 0
             THEN ConnectedControl(s, body)
             ELSE Route(s, channel, body)

provide_data(s, data, addr) ==
    CASE s.state = "Connecting" -> ProvideConnecting(s, data, addr)
      [] s.state = "AwaitingNegotiation" -> ProvideAwaiting(s, data)
      [] OTHER -> ProvideConnected(s, data)

\* ------------------------------------------------------------------ poll

\* variant: a dropped sender looks like a value that has not arrived yet
try_recv_pending(s) ==
    IF s.negotiation = "Filled" THEN "Ok" ELSE "Empty"

\* negotiation_recv.try_recv()
try_recv(s) ==
    CASE s.negotiation = "Filled" -> "Ok"
      [] s.negotiation = "Empty" -> "Empty"
      [] OTHER -> "Closed"

\* variant: Connecting never looks at the handle one-shot
PollConnectingNeverDrops(s) ==
    Outcome(s, "Retain", <<>>, {}, {})

PollConnecting(s) ==
    Outcome(s, IF s.peer_rx = "Dropped" THEN "Drop" ELSE "Retain", <<>>, {}, {})


\* variant: the server takes the mapping without telling the client
PollServerNegotiationSilent(s) ==
    CASE s.negotiation = "Filled" ->
            Outcome([s EXCEPT !.req = "ServerAwaitNegotiateResponse",
                              !.packets_router = s.offered,
                              !.negotiation = "Taken", !.offered = {}],
                    "Retain", <<>>, {}, {})
      [] s.negotiation = "Empty" -> Outcome(s, "Retain", <<>>, {}, {})
      [] OTHER -> Outcome(s, "Drop", <<>>, {}, {})

\* variant: the new sub-state gets the fresh one-shot sender instead of the
\* one the peer held (the fresh one's receiver is already gone)
PollServerNegotiationFreshEcho(s) ==
    CASE s.negotiation = "Filled" ->
            Outcome([s EXCEPT !.req = "ServerAwaitNegotiateResponse",
                              !.packets_router = s.offered,
                              !.negotiation = "Taken", !.offered = {},
                              !.echo_rx = "Dropped"],
                    "Retain", <<encode("Negotiate")>>, {}, {})
      [] s.negotiation = "Empty" -> Outcome(s, "Retain", <<>>, {}, {})
      [] OTHER -> Outcome(s, "Drop", <<>>, {}, {})

\* variant: the mapping is taken but the sub-state holding the receiver stays
PollServerNegotiationStays(s) ==
    CASE s.negotiation = "Filled" ->
            Outcome([s EXCEPT !.packets_router = s.offered,
                              !.negotiation = "Taken", !.offered = {}],
                    "Retain", <<encode("Negotiate")>>, {}, {})
      [] s.negotiation = "Empty" -> Outcome(s, "Retain", <<>>, {}, {})
      [] OTHER -> Outcome(s, "Drop", <<>>, {}, {})


PollServerNegotiation(s) ==
    CASE try_recv(s) = "Ok" ->
            Outcome([s EXCEPT !.req = "ServerAwaitNegotiateResponse",
                              !.packets_router = s.offered,
                              !.negotiation = "Taken", !.offered = {}],
                    "Retain", <<encode("Negotiate")>>, {}, {})
      [] try_recv(s) = "Closed" -> Outcome(s, "Drop", <<>>, {}, {})
      [] OTHER -> Outcome(s, "Retain", <<>>, {}, {})

\* variant: the server flushes its outbound queue while it waits for the echo
PollServerAwaitNegotiateResponseDrains(s) ==
    Outcome([s EXCEPT !.queue = <<>>],
            IF s.echo_rx = "Dropped" THEN "Drop" ELSE "Retain", s.queue, {}, {})


\* variant: the server repeats its Negotiate while it waits for the echo
PollServerAwaitNegotiateResponseResends(s) ==
    Outcome(s, IF s.echo_rx = "Dropped" THEN "Drop" ELSE "Retain",
            <<encode("Negotiate")>>, {}, {})

PollServerAwaitNegotiateResponse(s) ==
    Outcome(s, IF s.echo_rx = "Dropped" THEN "Drop" ELSE "Retain", <<>>, {}, {})


\* variant: the client keeps waiting after it sent its Negotiate
PollClientNegotiationWaits(s) ==
    CASE s.negotiation = "Filled" ->
            Outcome([s EXCEPT !.packets_router = s.offered,
                              !.negotiation = "Taken", !.offered = {}],
                    "Retain", <<encode("Negotiate")>>, {}, {})
      [] s.negotiation = "Empty" -> Outcome(s, "Retain", <<>>, {}, {})
      [] OTHER -> Outcome(s, "Drop", <<>>, {}, {})

PollClientNegotiation(s) ==
    CASE try_recv(s) = "Ok" ->
            Outcome([s EXCEPT !.state = "Connected", !.req = "None",
                              !.packets_router = s.offered,
                              !.negotiation = "Taken", !.offered = {}],
                    "Retain", <<encode("Negotiate")>>, {}, {})
      [] try_recv(s) = "Closed" -> Outcome(s, "Drop", <<>>, {}, {})
      [] OTHER -> Outcome(s, "Retain", <<>>, {}, {})


\* variant: either direction being idle is enough to drop the peer
ConnectedRetentionEither(packets_router, pub_count) ==
    IF packets_router = {} \/ pub_count = 0 THEN "Drop" ELSE "Retain"

\* the retention decision of the Connected arm, taken after the drain
ConnectedRetention(packets_router, pub_count) ==
    IF packets_router = {} /\ pub_count = 0 THEN "Drop" ELSE "Retain"

\* variant: one buffered packet is sent per poll
PollConnectedOnePerPoll(s) ==
    IF s.queue = <<>>
    THEN Outcome(s, ConnectedRetention(s.packets_router, s.pub_count), <<>>, {}, {})
    ELSE Outcome([s EXCEPT !.queue = Tail(@)],
                 ConnectedRetention(s.packets_router, s.pub_count), <<Head(s.queue)>>, {}, {})


\* Connected arm: every buffered packet goes to socket.send, then retention
PollConnected(s) ==
    Outcome([s EXCEPT !.queue = <<>>],
            ConnectedRetention(s.packets_router, s.pub_count), s.queue, {}, {})

poll(s) ==
    CASE s.state = "Connecting" -> PollConnecting(s)
      [] s.state = "AwaitingNegotiation" /\ s.req = "ServerNegotiation" ->
            PollServerNegotiation(s)
      [] s.state = "AwaitingNegotiation" /\ s.req = "ServerAwaitNegotiateResponse" ->
            PollServerAwaitNegotiateResponse(s)
      [] s.state = "AwaitingNegotiation" -> PollClientNegotiation(s)
      [] OTHER -> PollConnected(s)

\* ------------------------------------------------------------- transport
\* socket.send of the packets at positions outside fail; a full path loses
\* the packet, and so does an address nobody listens on
RECURSIVE Transmit(_, _, _, _)
Transmit(inflight, packets, fail, i) ==
    IF i > Len(packets) THEN inflight
    ELSE Transmit(IF i \notin fail /\ Len(inflight) < MaxNet
                  THEN Append(inflight, packets[i]) ELSE inflight,
                  packets, fail, i + 1)

\* ArrayQueue::force_push on the Subscriber's queue
force_push(queue, value) ==
    IF Len(queue) >= BufSize THEN Append(Tail(queue), value) ELSE Append(queue, value)

\* the control message provide_data reads out of a payload in a given state
Recognised(s, data) ==
    IF s.state = "Connected"
    THEN IF Len(data) > 0 /\ data[Len(data)] = 0
         THEN decode(SubSeq(data, 1, Len(data) - 1)) ELSE "Data"
    ELSE decode(data)

\* ------------------------------------------------------ DirectSubscription
\* self.sub.upgrade(): the Subscriber lives in the peer state machine and
\* goes away with it
Alive(s) == s.retained

\* variant: a full queue turns the new value away
push_keeps_oldest(s, h, value) ==
    IF Alive(s)
    THEN IF Len(s.queue) >= BufSize
         THEN Outcome([s EXCEPT !.lag[h] = @ + 1], "true", <<>>, {}, {})
         ELSE Outcome([s EXCEPT !.queue = force_push(@, value), !.lag[h] = 0],
                      "true", <<>>, {}, {"notify"})
    ELSE Outcome(s, "false", <<>>, {}, {})

\* DirectSubscription::push through subscription h
push(s, h, value) ==
    IF Alive(s)
    THEN IF Len(s.queue) >= BufSize
         THEN Outcome([s EXCEPT !.queue = force_push(@, value), !.lag[h] = @ + 1],
                      "true", <<>>, {}, {})
         ELSE Outcome([s EXCEPT !.queue = force_push(@, value), !.lag[h] = 0],
                      "true", <<>>, {}, {"notify"})
    ELSE Outcome(s, "false", <<>>, {}, {})

\* variant: the clone registers itself as one more producer
cloneCounts(s, h, h2) ==
    Outcome([s EXCEPT !.held = @ \cup {h2}, !.lag[h2] = s.lag[h],
                      !.pub_count = @ + 1],
            "None", <<>>, {}, {})

\* Clone for DirectSubscription: h2 becomes a copy of h
clone(s, h, h2) ==
    Outcome([s EXCEPT !.held = @ \cup {h2}, !.lag[h2] = s.lag[h]],
            "None", <<>>, {}, {})

\* a DirectSubscription goes out of scope: nothing happens to the Subscriber
drop_subscription(s, h) ==
    Outcome([s EXCEPT !.held = @ \ {h}, !.lag[h] = 0, !.registered = @ \ {h}],
            "None", <<>>, {}, {})

\* variant: the count is kept on the subscription side and survives the
\* Subscriber
increment_publishers_unchecked(s) ==
    Outcome([s EXCEPT !.pub_count = @ + 1], "None", <<>>, {}, {})

\* DirectSubscription::increment_publishers
increment_publishers(s) ==
    IF Alive(s)
    THEN Outcome([s EXCEPT !.pub_count = @ + 1], "None", <<>>, {}, {})
    ELSE Outcome(s, "None", <<>>, {}, {})

\* DirectSubscription::decrement_publishers
decrement_publishers(s) ==
    IF Alive(s)
    THEN Outcome([s EXCEPT !.pub_count = @ - 1], "None", <<>>, {}, {"notify"})
    ELSE Outcome(s, "None", <<>>, {}, {})

NoHist ==
    [appSent |-> FALSE, took |-> FALSE, negAfterTook |-> FALSE, removed |-> {},
     supplied |-> {}, emitted |-> <<>>, incs |-> 0, decs |-> 0]

\* one call: its input, the peer before it, its verdict, the packets it
\* handed to socket.send (fail: the positions whose send returned an error),
\* the setter invocations and the one-shots it signalled
Call(op, p, data, fail, pre, o) ==
    [op |-> op, peer |-> p, via |-> "None", data |-> data, fail |-> fail, pre |-> pre,
     ret |-> o.ret, sent |-> o.sent, setter |-> o.setter, signalled |-> o.signalled]

NoCall(p, pre) ==
    [op |-> "app", peer |-> p, via |-> "None", data |-> <<>>, fail |-> {}, pre |-> pre,
     ret |-> "None", sent |-> <<>>, setter |-> {}, signalled |-> {}]

\* one call made through subscription h of peer p
SubCall(op, p, h, value, pre, o) ==
    [Call(op, p, value, {}, pre, o) EXCEPT !.via = h]

\* the caller removes the peer from its table when a call does not Retain
Settle(o) == [o.s EXCEPT !.retained = (o.ret = "Retain")]

\* ---------------------------------------------------------------- actions
\* the transport loop hands one datagram from p's address to provide_data
ProvideData(p, data) ==
    /\ peers[p].retained
    /\ LET pre == peers[p]
           o == provide_data(pre, data, Other(p))
       IN  /\ peers' = [peers EXCEPT ![p] = Settle(o)]
           /\ hist' = [hist EXCEPT
                  ![p].negAfterTook = @ \/ (hist[p].took /\ Recognised(pre, data) = "Negotiate"),
                  ![p].removed = @ \cup (pre.packets_router \ o.s.packets_router)]
           /\ last' = Call("provide_data", p, data, {}, pre, o)

\* a datagram of any content shows up from p's address
Inject(p, data) ==
    /\ ProvideData(p, data)
    /\ UNCHANGED net

\* the oldest datagram in flight towards p is delivered
Deliver(p) ==
    /\ net[p] # <<>>
    /\ ProvideData(p, Head(net[p]))
    /\ net' = [net EXCEPT ![p] = Tail(@)]

\* the transport loop's periodic poll; fail = positions whose send errors
Poll(p, fail) ==
    /\ peers[p].retained
    /\ LET pre == peers[p]
           o == poll(pre)
       IN  /\ fail \subseteq 1..Len(o.sent)
           /\ peers' = [peers EXCEPT ![p] = Settle(o)]
           /\ net' = [net EXCEPT ![Other(p)] =
                        IF peers[Other(p)].state = "Absent" THEN @
                        ELSE Transmit(@, o.sent, fail, 1)]
           /\ hist' = [hist EXCEPT
                  ![p].took = @ \/ (pre.negotiation = "Filled" /\ o.s.negotiation = "Taken"),
                  ![p].emitted = IF pre.state = "Connected" THEN @ ELSE @ \o o.sent]
           /\ last' = Call("poll", p, <<>>, fail, pre, o)

\* application code: anything it can do with the endpoints it holds
AppStep(p, s) ==
    /\ peers[p].retained
    /\ peers' = [peers EXCEPT ![p] = s]
    /\ last' = NoCall(p, s)
    /\ UNCHANGED net

AppSendMapping(p, m) ==
    /\ peers[p].negotiation = "Empty"
    /\ AppStep(p, [peers[p] EXCEPT !.negotiation = "Filled", !.offered = m])
    /\ hist' = [hist EXCEPT ![p].appSent = TRUE, ![p].supplied = m]

AppDropNegotiationSender(p) ==
    /\ peers[p].negotiation = "Empty"
    /\ AppStep(p, [peers[p] EXCEPT !.negotiation = "Closed"])
    /\ UNCHANGED hist

AppDropHandleReceiver(p) ==
    /\ peers[p].state = "Connecting"
    /\ peers[p].peer_rx = "Alive"
    /\ AppStep(p, [peers[p] EXCEPT !.peer_rx = "Dropped"])
    /\ UNCHANGED hist

AppDropEchoReceiver(p) ==
    /\ peers[p].echo_rx = "Alive"
    /\ ~peers[p].echo_sent
    /\ AppStep(p, [peers[p] EXCEPT !.echo_rx = "Dropped"])
    /\ UNCHANGED hist

\* the sink behind a publisher the application built gains or loses its
\* producers
AppSetValid(p, c) ==
    /\ c \in peers[p].offered \cup peers[p].packets_router \cup hist[p].removed
    /\ AppStep(p, [peers[p] EXCEPT !.valid[c] = ~@])
    /\ UNCHANGED hist

AppPush(p, packet) ==
    /\ peers[p].state # "Connecting"
    /\ AppStep(p, [peers[p] EXCEPT !.queue = force_push(@, packet)])
    /\ UNCHANGED hist

AppAddPublisher(p) ==
    /\ peers[p].state # "Connecting"
    /\ peers[p].pub_count < MaxPub
    /\ AppStep(p, [peers[p] EXCEPT !.pub_count = @ + 1])
    /\ UNCHANGED hist

AppRemovePublisher(p) ==
    /\ peers[p].pub_count > 0
    /\ AppStep(p, [peers[p] EXCEPT !.pub_count = @ - 1])
    /\ UNCHANGED hist

\* application code pushes a packet through a subscription it holds; the
\* call leaves the peer's place in the transport's table alone
SubPush(p, h, packet) ==
    /\ h \in peers[p].held
    /\ (Alive(peers[p]) /\ Len(peers[p].queue) >= BufSize) => peers[p].lag[h] < MaxLag
    /\ LET pre == peers[p]
           o == push(pre, h, packet)
       IN  /\ peers' = [peers EXCEPT ![p] = o.s]
           /\ last' = SubCall("push", p, h, packet, pre, o)
    /\ UNCHANGED <<net, hist>>

\* application code clones a subscription it holds
SubClone(p, h, h2) ==
    /\ h \in peers[p].held
    /\ h2 \in Handles \ peers[p].held
    /\ LET pre == peers[p]
           o == clone(pre, h, h2)
       IN  /\ peers' = [peers EXCEPT ![p] = o.s]
           /\ last' = SubCall("clone", p, h, <<>>, pre, o)
    /\ UNCHANGED <<net, hist>>

\* application code lets go of a subscription no Publisher has accepted
SubDrop(p, h) ==
    /\ h \in peers[p].held \ peers[p].registered
    /\ LET pre == peers[p]
           o == drop_subscription(pre, h)
       IN  /\ peers' = [peers EXCEPT ![p] = o.s]
           /\ last' = SubCall("drop", p, h, <<>>, pre, o)
    /\ UNCHANGED <<net, hist>>

\* a Publisher accepts subscription h and registers itself as a producer
SubIncrement(p, h) ==
    /\ h \in peers[p].held \ peers[p].registered
    /\ hist[p].incs <= MaxPub
    /\ LET pre == peers[p]
           o == increment_publishers(pre)
       IN  /\ peers' = [peers EXCEPT ![p] = [o.s EXCEPT !.registered = @ \cup {h}]]
           /\ hist' = [hist EXCEPT ![p].incs = IF Alive(pre) THEN @ + 1 ELSE @]
           /\ last' = SubCall("increment_publishers", p, h, <<>>, pre, o)
    /\ UNCHANGED net

\* the Publisher that accepted subscription h goes away, and h with it
SubDecrement(p, h) ==
    /\ h \in peers[p].registered
    /\ LET pre == peers[p]
           o == decrement_publishers(pre)
       IN  /\ peers' = [peers EXCEPT ![p] = drop_subscription(o.s, h).s]
           /\ hist' = [hist EXCEPT ![p].decs = IF Alive(pre) THEN @ + 1 ELSE @]
           /\ last' = SubCall("decrement_publishers", p, h, <<>>, pre, o)
    /\ UNCHANGED net

\* the transport thread is not inside any drain loop
Idle == \A p \in Peers : ~peers[p].draining

\* poll enters the Connected arm
PollBegin(p) ==
    /\ Idle
    /\ peers[p].retained
    /\ peers[p].state = "Connected"
    /\ peers' = [peers EXCEPT ![p].draining = TRUE]
    /\ last' = [NoCall(p, peers[p]) EXCEPT !.op = "poll_begin"]
    /\ UNCHANGED <<net, hist>>

\* one turn of `while let Some(packet) = packets_sub.try_recv()`: the oldest
\* buffered packet goes to socket.send
DrainStep(p) ==
    /\ peers[p].draining
    /\ peers[p].queue # <<>>
    /\ LET pre == peers[p]
           t == [pre EXCEPT !.queue = Tail(@)]
       IN  /\ peers' = [peers EXCEPT ![p] = t]
           /\ net' = [net EXCEPT ![Other(p)] =
                        IF peers[Other(p)].state = "Absent" THEN @
                        ELSE Transmit(@, <<Head(pre.queue)>>, {}, 1)]
           /\ last' = Call("drain", p, <<>>, {}, pre,
                           Outcome(t, "None", <<Head(pre.queue)>>, {}, {}))
    /\ UNCHANGED hist

\* try_recv returned None: the loop ends and the retention decision is taken
DrainEnd(p) ==
    /\ peers[p].draining
    /\ peers[p].queue = <<>>
    /\ LET pre == peers[p]
           o == Outcome([pre EXCEPT !.draining = FALSE],
                        ConnectedRetention(pre.packets_router, pre.pub_count),
                        <<>>, {}, {})
       IN  /\ peers' = [peers EXCEPT ![p] = Settle(o)]
           /\ last' = Call("poll", p, <<>>, {}, pre, o)
    /\ UNCHANGED <<net, hist>>

\* --------------------------------------------------------- specifications
\* one peer of either role, driven by arbitrary datagrams and applications
Init ==
    /\ \E live \in Peers :
          /\ peers = [p \in Peers |-> IF p = live THEN InitPeer(p) ELSE AbsentPeer]
          /\ last = NoCall(live, InitPeer(live))
    /\ net = [p \in Peers |-> <<>>]
    /\ hist = [p \in Peers |-> NoHist]

\* what application code does with the one-shot endpoints and sinks it holds
AppNegotiates(p) ==
    \/ \E m \in SUBSET Channels : AppSendMapping(p, m)
    \/ AppDropNegotiationSender(p)
    \/ AppDropHandleReceiver(p)
    \/ AppDropEchoReceiver(p)
    \/ \E c \in Channels : AppSetValid(p, c)

\* what application code does with the outbound subscription it holds
AppPublishes(p) ==
    \/ \E packet \in OutPackets : AppPush(p, packet)
    \/ AppAddPublisher(p)
    \/ AppRemovePublisher(p)

Next ==
    \E p \in Peers :
        \/ \E data \in Datagrams : Inject(p, data)
        \/ \E fail \in SUBSET (1..BufSize) : Poll(p, fail)
        \/ AppNegotiates(p)

Spec == Init /\ [][Next]_vars

\* the same peer with an application that also uses its outbound
\* subscription; the remote sends the handshake message and data frames
OutDatagrams == {encode("Negotiate")} \cup {<<MaxChannel + 1, c>> : c \in Channels}

NextOut ==
    \E p \in Peers :
        \/ \E data \in OutDatagrams : Inject(p, data)
        \/ \E fail \in SUBSET (1..BufSize) : Poll(p, fail)
        \/ AppNegotiates(p)
        \/ AppPublishes(p)

SpecOut == Init /\ [][NextOut]_vars

\* a client and a server peer joined by a transport that delivers every
\* datagram it accepts, with applications that keep their endpoints alive,
\* register channel 1 and push packets for it
InitE2E ==
    /\ peers = [p \in Peers |-> InitPeer(p)]
    /\ last = NoCall("client", InitPeer("client"))
    /\ net = [p \in Peers |-> <<>>]
    /\ hist = [p \in Peers |-> NoHist]

E2EMappings == {m \in SUBSET Channels : 1 \in m}

E2EPackets == {packet \in OutPackets : packet[Len(packet)] = 1 /\ packet[1] # 0}

NextE2E ==
    \E p \in Peers :
        \/ Deliver(p)
        \/ Poll(p, {})
        \/ \E m \in E2EMappings : AppSendMapping(p, m)
        \/ \E packet \in E2EPackets : AppPush(p, packet)

SpecE2E ==
    /\ InitE2E
    /\ [][NextE2E]_vars
    /\ \A p \in Peers :
          /\ WF_vars(Deliver(p))
          /\ WF_vars(Poll(p, {}))
          /\ WF_vars(\E m \in E2EMappings : AppSendMapping(p, m))

\* the Connected arm of poll taken one loop turn at a time, with application
\* producers pushing through the handle's subscription at any moment; the
\* transport thread keeps running
NextDrain ==
    \E p \in Peers :
        \/ Idle /\ Inject(p, encode("Negotiate"))
        \/ Idle /\ peers[p].state # "Connected" /\ Poll(p, {})
        \/ \E m \in E2EMappings : AppSendMapping(p, m)
        \/ PollBegin(p)
        \/ DrainStep(p)
        \/ DrainEnd(p)
        \/ \E packet \in OutPackets : SubPush(p, "packets_to_send", packet)

SpecDrain ==
    /\ Init
    /\ [][NextDrain]_vars
    /\ \A p \in Peers : WF_vars(DrainStep(p) \/ DrainEnd(p))

\* one peer whose application uses the subscriptions of the outbound
\* Subscriber: it pushes through them, clones and drops them and hands them
\* to Publishers, before and after the peer has been dropped
SubMappings == {{}, {1}}

\* what the remote sends: the handshake message, and a Disconnect framed
\* for a Connected peer
SubDatagrams == {encode("Negotiate"), Append(encode("Disconnect"), 0)}

NextSub ==
    \E p \in Peers :
        \/ \E data \in SubDatagrams : Inject(p, data)
        \/ Poll(p, {})
        \/ \E m \in SubMappings : AppSendMapping(p, m)
        \/ \E h \in Handles :
              \/ \E packet \in OutPackets : SubPush(p, h, packet)
              \/ \E h2 \in Handles : SubClone(p, h, h2)
              \/ SubDrop(p, h)
              \/ SubIncrement(p, h)
              \/ SubDecrement(p, h)

SpecSub == Init /\ [][NextSub]_vars

TypeOK ==
    /\ \A p \in Peers :
          /\ peers[p].state \in {"Connecting", "AwaitingNegotiation", "Connected", "Absent"}
          /\ peers[p].packets_router \subseteq Channels
          /\ Len(peers[p].queue) <= BufSize
          /\ Len(net[p]) <= MaxNet

\* ------------------------------------------------------------------ claims
\* the peer the most recent call was made on, as the call left it
Now == peers[last.peer]

Provided == last.op = "provide_data"

Polled == last.op = "poll"

\* the trailing byte of a non-empty payload and the bytes before it
ChannelByte(data) == data[Len(data)]

BodyBytes(data) == SubSeq(data, 1, Len(data) - 1)

\* the peer as the caller leaves it after a Drop that changed nothing
DroppedFrom(pre) == [pre EXCEPT !.retained = FALSE]

NoEffects == last.sent = <<>> /\ last.setter = {} /\ last.signalled = {}

\* C1: a server peer is Connected only after its application sent a mapping,
\* a poll took it, and after that provide_data received a Negotiate.
C1_ServerConnectedOnlyAfterEcho ==
    peers["server"].state = "Connected" =>
        /\ hist["server"].appSent
        /\ hist["server"].took
        /\ hist["server"].negAfterTook

C1_Witness ==
    /\ peers["server"].state = "Connected"
    /\ peers["server"].retained

\* C2: the poll that finds the mapping while in ClientNegotiation sends
\* Negotiate, returns Retain and leaves the peer Connected with that mapping;
\* only a peer that started in Connecting is ever in ClientNegotiation.
C2_ClientConnectsOnTake ==
    /\ \A p \in Peers : peers[p].req = "ClientNegotiation" => p = "client"
    /\ (Polled /\ last.pre.req = "ClientNegotiation" /\ last.pre.negotiation = "Filled") =>
          /\ last.ret = "Retain"
          /\ last.sent = <<encode("Negotiate")>>
          /\ Now.state = "Connected"
          /\ Now.packets_router = last.pre.offered
          /\ Now.retained

C2_Witness ==
    /\ Polled
    /\ last.pre.req = "ClientNegotiation"
    /\ last.pre.negotiation = "Filled"
    /\ Now.state = "Connected"

BothConnected == \A p \in Peers : peers[p].state = "Connected" /\ peers[p].retained

\* a datagram tagged channel 1 reached a Connected peer
ChannelOneArrived ==
    /\ Provided
    /\ last.pre.state = "Connected"
    /\ Len(last.data) > 0
    /\ ChannelByte(last.data) = 1

\* C3: with a delivering transport, live applications and repeated polls both
\* peers eventually are Connected, and a datagram tagged channel 1 that
\* arrives at a Connected side goes to that side's channel-1 setter.
C3_HandshakeCompletes ==
    /\ <>BothConnected
    /\ [](ChannelOneArrived =>
            /\ last.setter = {<<1, BodyBytes(last.data)>>}
            /\ last.ret = "Retain")

C3_Witness ==
    /\ BothConnected
    /\ ChannelOneArrived
    /\ last.peer = "server"
    /\ last.setter # {}

\* C4: a provide_data call whose payload the current phase reads as
\* Disconnect returns Drop and does nothing else.
C4_DisconnectDrops ==
    (Provided /\ Recognised(last.pre, last.data) = "Disconnect") =>
        /\ last.ret = "Drop"
        /\ Now = DroppedFrom(last.pre)
        /\ NoEffects

C4_Witness ==
    /\ Provided
    /\ Recognised(last.pre, last.data) = "Disconnect"
    /\ last.pre.state = "Connected"
    /\ last.pre.packets_router # {}
    /\ last.ret = "Drop"

NegotiationPolled ==
    /\ Polled
    /\ last.pre.state = "AwaitingNegotiation"
    /\ last.pre.req \in {"ServerNegotiation", "ClientNegotiation"}

\* C5: in ServerNegotiation and ClientNegotiation, poll returns Drop without
\* sending or changing the phase when the negotiation sender was dropped
\* unsent, and Retain without any change while nothing has been sent.
C5_DroppedNegotiationSender ==
    NegotiationPolled =>
        /\ last.pre.negotiation = "Closed" =>
              last.ret = "Drop" /\ Now = DroppedFrom(last.pre) /\ NoEffects
        /\ last.pre.negotiation = "Empty" =>
              last.ret = "Retain" /\ Now = last.pre /\ NoEffects

C5_Witness ==
    /\ NegotiationPolled
    /\ last.pre.req = "ServerNegotiation"
    /\ last.pre.negotiation = "Closed"
    /\ last.ret = "Drop"

\* a one-shot endpoint the peer holds has lost its counterpart unsent
Abandoned(s) ==
    \/ s.state = "Connecting" /\ s.peer_rx = "Dropped"
    \/ /\ s.state = "AwaitingNegotiation"
       /\ s.req \in {"ServerNegotiation", "ClientNegotiation"}
       /\ s.negotiation = "Closed"
    \/ /\ s.state = "AwaitingNegotiation"
       /\ s.req \in {"ServerNegotiation", "ServerAwaitNegotiateResponse"}
       /\ s.echo_rx = "Dropped"

\* C6: a poll on a peer one of whose one-shot endpoints was abandoned
\* returns Drop.
C6_AbandonedPollDrops ==
    (Polled /\ Abandoned(last.pre)) => last.ret = "Drop"

\* what provide_data would read if every phase framed as Connected does
Framed(data) ==
    IF Len(data) > 0 /\ ChannelByte(data) = 0 THEN decode(BodyBytes(data)) ELSE "Data"

\* C7 as stated: a control message followed by a 0 byte is taken as that
\* control message in every phase (Disconnect drops, Negotiate in Connecting
\* publishes the handle).
C7_UniformFraming ==
    Provided =>
        /\ Framed(last.data) = "Disconnect" => last.ret = "Drop"
        /\ (Framed(last.data) = "Negotiate" /\ last.pre.state = "Connecting") =>
              Now.state = "AwaitingNegotiation"

\* C7: in Connected the last payload byte is the channel id (0: the bytes
\* before it are decoded as a control message; non-zero: they are data for
\* that channel); in Connecting and AwaitingNegotiation the whole payload is
\* decoded as a control message, so a control message followed by a 0 byte
\* does not decode there and the call retains the peer unchanged.
C7_FramingByPhase ==
    Provided =>
        /\ (last.pre.state = "Connected" /\ Len(last.data) > 0) =>
              /\ last.ret = "Drop" <=> Framed(last.data) = "Disconnect"
              /\ last.setter \subseteq {<<ChannelByte(last.data), BodyBytes(last.data)>>}
              /\ ChannelByte(last.data) = 0 => last.setter = {}
        /\ last.pre.state \in {"Connecting", "AwaitingNegotiation"} =>
              /\ decode(last.data) = "Disconnect" => last.ret = "Drop"
              /\ (decode(last.data) = "Negotiate" /\ last.pre.state = "Connecting") =>
                    Now.state = "AwaitingNegotiation"
              /\ Framed(last.data) \in SpecialMessage =>
                    last.ret = "Retain" /\ Now = last.pre /\ NoEffects

C7_Witness ==
    /\ Provided
    /\ last.pre.state = "Connecting"
    /\ Framed(last.data) = "Disconnect"
    /\ last.ret = "Retain"

\* the call routed a payload whose channel byte is not 0 in Connected
Routed ==
    /\ Provided
    /\ last.pre.state = "Connected"
    /\ Len(last.data) > 0
    /\ ChannelByte(last.data) # 0

\* C8: in Connected a provide_data call for a registered channel whose
\* liveness check is false removes exactly that entry, invokes no setter and
\* returns Retain; a removed channel is never registered again and no later
\* call invokes a setter for it, whatever its liveness check returns then.
C8_DeadEntryRemovedOnce ==
    /\ (Routed /\ ChannelByte(last.data) \in last.pre.packets_router
               /\ ~last.pre.valid[ChannelByte(last.data)]) =>
          /\ last.ret = "Retain"
          /\ last.setter = {}
          /\ Now.packets_router = last.pre.packets_router \ {ChannelByte(last.data)}
          /\ ChannelByte(last.data) \in hist[last.peer].removed
    /\ \A p \in Peers : \A c \in hist[p].removed :
          /\ c \notin peers[p].packets_router
          /\ (Provided /\ last.peer = p) => \A call \in last.setter : call[1] # c

C8_Witness ==
    /\ Routed
    /\ ChannelByte(last.data) \in hist[last.peer].removed
    /\ ChannelByte(last.data) \notin last.pre.packets_router
    /\ last.pre.valid[ChannelByte(last.data)]
    /\ last.pre.packets_router # {}

\* C9: in Connected a provide_data call with a non-zero channel id that has
\* no router entry returns Retain, invokes no setter and leaves the peer,
\* its router mapping included, exactly as it was.
C9_UnregisteredChannel ==
    (Routed /\ ChannelByte(last.data) \notin last.pre.packets_router) =>
        /\ last.ret = "Retain"
        /\ Now = last.pre
        /\ NoEffects

C9_Witness ==
    /\ Routed
    /\ ChannelByte(last.data) \in Channels \ last.pre.packets_router
    /\ last.pre.packets_router # {}
    /\ last.ret = "Retain"

\* C10: in Connected poll empties the outbound queue and returns Drop
\* exactly when the router mapping is empty and the producer count is zero,
\* Retain otherwise, also when every registered entry is dead.
C10_ConnectedRetention ==
    (Polled /\ last.pre.state = "Connected") =>
        /\ last.ret \in {"Drop", "Retain"}
        /\ last.ret = "Drop" <=>
              (last.pre.packets_router = {} /\ last.pre.pub_count = 0)
        /\ Now.queue = <<>>
        /\ Now.packets_router = last.pre.packets_router

C10_Witness ==
    /\ Polled
    /\ last.pre.state = "Connected"
    /\ last.pre.packets_router # {}
    /\ \A c \in last.pre.packets_router : ~last.pre.valid[c]
    /\ last.pre.pub_count = 0
    /\ last.pre.queue # <<>>
    /\ last.ret = "Retain"

\* the call was made on a peer that had not finished negotiating
BeforeConnected == last.pre.state \in {"Connecting", "AwaitingNegotiation"}

\* C11: a provide_data or poll call on a peer in Connecting or
\* AwaitingNegotiation invokes no setter, leaves the outbound queue as it
\* was, and hands the socket nothing but at most one Negotiate.
C11_NoDataBeforeConnected ==
    ((Provided \/ Polled) /\ BeforeConnected) =>
        /\ last.setter = {}
        /\ Now.queue = last.pre.queue
        /\ last.sent \in {<<>>, <<encode("Negotiate")>>}
        /\ Provided => last.sent = <<>>

C11_Witness ==
    /\ Polled
    /\ last.pre.req = "ServerAwaitNegotiateResponse"
    /\ last.pre.queue # <<>>
    /\ last.pre.packets_router # {}
    /\ last.ret = "Retain"

NegotiateWhileConnecting ==
    /\ Provided
    /\ last.pre.state = "Connecting"
    /\ decode(last.data) = "Negotiate"

\* C12: Negotiate in Connecting moves the peer to AwaitingNegotiation /
\* ClientNegotiation with a fresh subscriber; with the handle receiver alive
\* it publishes one handle (ClientSide, the datagram's address, the sender of
\* the negotiation one-shot the peer now receives on) and returns Retain,
\* with the receiver dropped it publishes nothing and returns Drop.  A
\* published handle is never published again.
C12_NegotiatePublishesHandle ==
    /\ NegotiateWhileConnecting =>
          /\ Now.state = "AwaitingNegotiation"
          /\ Now.req = "ClientNegotiation"
          /\ Now.queue = <<>> /\ Now.pub_count = 0
          /\ last.pre.peer_rx = "Alive" =>
                /\ last.ret = "Retain"
                /\ last.signalled = {"peer_sender"}
                /\ Now.peer_sent
                /\ Now.handle = [remote_addr |-> Other(last.peer), quirk |-> "ClientSide"]
                /\ Now.negotiation = "Empty"
          /\ last.pre.peer_rx = "Dropped" =>
                /\ last.ret = "Drop"
                /\ last.signalled = {}
                /\ Now.handle = NoHandle
                /\ Now.negotiation = "Closed"
    /\ \A p \in Peers :
          /\ peers[p].peer_sent => peers[p].state # "Connecting"
          /\ (Provided /\ last.peer = p /\ last.pre.peer_sent) =>
                "peer_sender" \notin last.signalled

C12_Witness ==
    /\ NegotiateWhileConnecting
    /\ last.pre.peer_rx = "Dropped"
    /\ last.ret = "Drop"
    /\ Now.req = "ClientNegotiation"

ServerTook ==
    /\ Polled
    /\ last.pre.req = "ServerNegotiation"
    /\ last.pre.negotiation = "Filled"

\* C13: the poll that finds the mapping in ServerNegotiation hands one
\* Negotiate to the socket, returns Retain and moves to
\* ServerAwaitNegotiateResponse with that mapping; the echo one-shot and
\* everything else stay as they were, whether or not the send failed.
C13_ServerTakesMapping ==
    ServerTook =>
        /\ last.ret = "Retain"
        /\ last.sent = <<encode("Negotiate")>>
        /\ Now = [last.pre EXCEPT !.req = "ServerAwaitNegotiateResponse",
                                  !.packets_router = last.pre.offered,
                                  !.negotiation = "Taken", !.offered = {}]
        /\ Now.packets_router = hist[last.peer].supplied

C13_Witness ==
    /\ ServerTook
    /\ last.fail = {1}
    /\ last.pre.echo_rx = "Alive"
    /\ last.pre.offered # {}
    /\ Now.req = "ServerAwaitNegotiateResponse"

EchoReceived ==
    /\ Provided
    /\ last.pre.req = "ServerAwaitNegotiateResponse"
    /\ decode(last.data) = "Negotiate"

\* C14: Negotiate in ServerAwaitNegotiateResponse with the echo receiver
\* alive signals the echo one-shot, returns Retain and leaves the peer
\* Connected with the mapping the application supplied and the subscriber it
\* had; with the echo receiver dropped it returns Drop, signals nothing and
\* the peer is not Connected.
C14_EchoConnectsServer ==
    EchoReceived =>
        /\ last.pre.echo_rx = "Alive" =>
              /\ last.ret = "Retain"
              /\ last.signalled = {"client_negotiation_sender"}
              /\ Now.state = "Connected"
              /\ Now.packets_router = hist[last.peer].supplied
              /\ Now.queue = last.pre.queue
              /\ Now.pub_count = last.pre.pub_count
        /\ last.pre.echo_rx = "Dropped" =>
              /\ last.ret = "Drop"
              /\ last.signalled = {}
              /\ Now = DroppedFrom(last.pre)

C14_Witness ==
    /\ EchoReceived
    /\ last.pre.echo_rx = "Alive"
    /\ hist[last.peer].supplied # {}
    /\ last.pre.queue # <<>>
    /\ last.pre.pub_count > 0
    /\ Now.state = "Connected"

\* the peer is in a sub-state that holds negotiation_recv
HoldsReceiver(s) ==
    s.state = "AwaitingNegotiation" /\ s.req \in {"ServerNegotiation", "ClientNegotiation"}

\* C15: once a poll has taken the mapping the peer never again is in a
\* sub-state holding the negotiation receiver, the one-shot stays taken, and
\* the only call that polled the receiver with the mapping taken is the one
\* that took it.
C15_TakenOnce ==
    \A p \in Peers : hist[p].took =>
        /\ ~HoldsReceiver(peers[p])
        /\ peers[p].negotiation = "Taken"
        /\ (NegotiationPolled /\ last.peer = p) => last.pre.negotiation = "Filled"

C15_Witness ==
    /\ hist["server"].took
    /\ Polled
    /\ last.peer = "server"
    /\ last.pre.negotiation = "Taken"
    /\ last.pre.req = "ServerAwaitNegotiateResponse"

EarlyNegotiate ==
    /\ Provided
    /\ HoldsReceiver(last.pre)
    /\ decode(last.data) = "Negotiate"

\* C16: Negotiate received in ServerNegotiation or ClientNegotiation returns
\* Retain and changes nothing; no one-shot is signalled.
C16_EarlyNegotiateIgnored ==
    EarlyNegotiate =>
        /\ last.ret = "Retain"
        /\ Now = last.pre
        /\ NoEffects

C16_Witness ==
    /\ EarlyNegotiate
    /\ last.pre.req = "ServerNegotiation"
    /\ last.pre.echo_rx = "Alive"
    /\ last.pre.negotiation = "Filled"

AckReceived == Provided /\ Recognised(last.pre, last.data) = "Ack"

\* C17: an Ack leaves phase and sub-state alone and has no effects; it
\* returns Drop exactly in Connecting with the handle receiver dropped and in
\* ServerAwaitNegotiateResponse with the echo receiver dropped, else Retain.
C17_AckVerdict ==
    AckReceived =>
        /\ Now.state = last.pre.state
        /\ Now.req = last.pre.req
        /\ NoEffects
        /\ last.ret \in {"Drop", "Retain"}
        /\ last.ret = "Drop" <=>
              \/ last.pre.state = "Connecting" /\ last.pre.peer_rx = "Dropped"
              \/ last.pre.req = "ServerAwaitNegotiateResponse" /\ last.pre.echo_rx = "Dropped"

C17_Witness ==
    /\ AckReceived
    /\ last.pre.req = "ServerNegotiation"
    /\ last.pre.echo_rx = "Dropped"
    /\ last.ret = "Retain"

ControlWhileConnected ==
    /\ Provided
    /\ last.pre.state = "Connected"
    /\ Len(last.data) > 0
    /\ ChannelByte(last.data) = 0

\* C18: in Connected a channel-0 datagram returns Drop only when the bytes
\* before the channel byte decode to Disconnect; Negotiate, Ack and bytes
\* that do not decode return Retain and leave the peer unchanged.
C18_ConnectedControlMessages ==
    ControlWhileConnected =>
        /\ last.ret = "Drop" <=> decode(BodyBytes(last.data)) = "Disconnect"
        /\ decode(BodyBytes(last.data)) # "Disconnect" =>
              last.ret = "Retain" /\ Now = last.pre /\ NoEffects

C18_Witness ==
    /\ ControlWhileConnected
    /\ decode(BodyBytes(last.data)) = "Err"
    /\ last.pre.packets_router # {}
    /\ last.ret = "Retain"

LiveRouted ==
    /\ Routed
    /\ ChannelByte(last.data) \in last.pre.packets_router
    /\ last.pre.valid[ChannelByte(last.data)]

\* C19: in Connected a datagram for a registered channel whose liveness
\* check is true invokes that channel's setter, and no other, with the
\* payload minus its channel byte, returns Retain and leaves the peer and
\* its router unchanged.
C19_LiveEntryDelivers ==
    LiveRouted =>
        /\ last.setter = {<<ChannelByte(last.data), BodyBytes(last.data)>>}
        /\ Cardinality(last.setter) = 1
        /\ last.ret = "Retain"
        /\ Now = last.pre
        /\ last.sent = <<>> /\ last.signalled = {}

C19_Witness ==
    /\ LiveRouted
    /\ Cardinality(last.pre.packets_router) > 1
    /\ \A c \in last.pre.packets_router : last.pre.valid[c]
    /\ Len(last.data) > 1

ConnectedPolled == Polled /\ last.pre.state = "Connected"

\* C20: in Connected poll hands the socket exactly the buffered packets, in
\* buffer order, and leaves the buffer empty; the verdict is the retention
\* decision on router and producer count whichever sends failed, and
\* nothing but the queue changes.
C20_DrainInOrder ==
    ConnectedPolled =>
        /\ last.sent = last.pre.queue
        /\ Now = [last.pre EXCEPT !.queue = <<>>,
                                  !.retained = ~(last.pre.packets_router = {}
                                                 /\ last.pre.pub_count = 0)]
        /\ Now.retained <=> last.ret = "Retain"

C20_Witness ==
    /\ ConnectedPolled
    /\ Len(last.pre.queue) > 1
    /\ last.pre.queue[1] # last.pre.queue[2]
    /\ last.fail = {1}
    /\ last.ret = "Retain"
    /\ Now.queue = <<>>

\* the poll found the peer in a phase where it only checks a one-shot sender
FramePolled ==
    /\ Polled
    /\ \/ last.pre.state = "Connecting"
       \/ last.pre.state = "AwaitingNegotiation"
          /\ last.pre.req = "ServerAwaitNegotiateResponse"

\* C21: poll in Connecting and in ServerAwaitNegotiateResponse sends nothing,
\* signals nothing and leaves phase, sub-state and every field as they were;
\* it returns Drop exactly when the handle receiver (Connecting) or the echo
\* receiver (ServerAwaitNegotiateResponse) has been dropped, else Retain.
C21_PollFrame ==
    FramePolled =>
        /\ NoEffects
        /\ [Now EXCEPT !.retained = TRUE] = last.pre
        /\ last.ret \in {"Drop", "Retain"}
        /\ Now.retained <=> last.ret = "Retain"
        /\ last.pre.state = "Connecting" =>
              (last.ret = "Drop" <=> last.pre.peer_rx = "Dropped")
        /\ last.pre.req = "ServerAwaitNegotiateResponse" =>
              (last.ret = "Drop" <=> last.pre.echo_rx = "Dropped")

C21_Witness ==
    /\ FramePolled
    /\ last.pre.state = "Connecting"
    /\ last.pre.peer_rx = "Dropped"
    /\ last.ret = "Drop"

\* a payload that is no control message reached a peer still negotiating
UndecodableEarly ==
    /\ Provided
    /\ BeforeConnected
    /\ decode(last.data) = "Err"

\* C22: a datagram that does not decode as a control message, received in
\* Connecting or in any AwaitingNegotiation sub-state (a data frame with a
\* trailing channel byte included), returns Retain and leaves phase,
\* sub-state, every one-shot endpoint and everything else unchanged.
C22_UndecodableRetained ==
    UndecodableEarly =>
        /\ last.ret = "Retain"
        /\ Now.state = last.pre.state /\ Now.req = last.pre.req
        /\ Now.peer_rx = last.pre.peer_rx /\ Now.peer_sent = last.pre.peer_sent
        /\ Now.negotiation = last.pre.negotiation /\ Now.offered = last.pre.offered
        /\ Now.echo_rx = last.pre.echo_rx /\ Now.echo_sent = last.pre.echo_sent
        /\ Now = last.pre
        /\ NoEffects

C22_Witness ==
    /\ UndecodableEarly
    /\ last.pre.req = "ServerAwaitNegotiateResponse"
    /\ last.pre.echo_rx = "Dropped"
    /\ Len(last.data) = 2
    /\ ChannelByte(last.data) \in last.pre.packets_router
    /\ last.ret = "Retain"

\* C23: every provide_data call, whatever the payload and the phase, comes
\* back with a retention verdict (Drop or Retain) rather than panicking; the
\* empty payload delivered to a Connected peer is one of the cases.
C23_NoPanic ==
    Provided => last.ret \in {"Drop", "Retain"}

\* C24: every poll returns: the negotiation one-shots are read with a single
\* non-blocking try_recv, and a poll that entered the Connected drain loop
\* leaves it again, also when producers keep pushing during the drain.
C24_PollReturns ==
    \A p \in Peers : [](peers[p].draining => <>(~peers[p].draining))

\* the encoding of control message m reached a peer that was Connecting
EncodedWhileConnecting(m) ==
    /\ Provided
    /\ last.pre.state = "Connecting"
    /\ last.data = encode(m)

Position(s) == IF s.state = "AwaitingNegotiation" THEN s.req ELSE s.state

\* the moves one call may make
PhaseEdges ==
    {<<"Connecting", "ClientNegotiation">>,
     <<"ClientNegotiation", "Connected">>,
     <<"ServerNegotiation", "ServerAwaitNegotiateResponse">>,
     <<"ServerAwaitNegotiateResponse", "Connected">>}

\* C26: a provide_data or poll call leaves the phase where it was or moves
\* it one step along Connecting -> ClientNegotiation -> Connected or
\* ServerNegotiation -> ServerAwaitNegotiateResponse -> Connected; nothing
\* leaves Connected; a peer that started Connecting is never in a server
\* sub-state and one that started in ServerNegotiation is never Connecting
\* or in ClientNegotiation.
C26_PhasesAdvance ==
    /\ (Provided \/ Polled) =>
          \/ Position(Now) = Position(last.pre)
          \/ <<Position(last.pre), Position(Now)>> \in PhaseEdges
    /\ \A p \in Peers :
          /\ peers[p].state # "AwaitingNegotiation" => peers[p].req = "None"
          /\ peers[p].state = "AwaitingNegotiation" =>
                peers[p].req \in {"ClientNegotiation", "ServerNegotiation",
                                  "ServerAwaitNegotiateResponse"}
    /\ Position(peers["client"]) \in {"Connecting", "ClientNegotiation", "Connected", "Absent"}
    /\ Position(peers["server"]) \in
          {"ServerNegotiation", "ServerAwaitNegotiateResponse", "Connected", "Absent"}

C26_Witness ==
    /\ Provided
    /\ last.peer = "server"
    /\ last.pre.state = "Connected"
    /\ Len(last.data) > 0
    /\ Recognised(last.pre, last.data) = "Negotiate"
    /\ Now.state = "Connected"
    /\ Now.retained

\* C27: over the life of a peer poll hands the socket at most one control
\* message of its own, a Negotiate, in the call that takes the mapping; no
\* later poll repeats it, also when that send failed, and in Connected poll
\* hands over the packets the application queued and nothing else.
C27_NegotiateOnce ==
    /\ \A p \in Peers :
          /\ hist[p].emitted \in {<<>>, <<encode("Negotiate")>>}
          /\ hist[p].emitted # <<>> <=> hist[p].took
    /\ (Polled /\ BeforeConnected) =>
          (last.sent # <<>> <=> last.pre.negotiation = "Filled")
    /\ (Polled /\ BeforeConnected /\ last.pre.negotiation = "Taken") =>
          last.sent = <<>> /\ Now.negotiation = "Taken"
    /\ ConnectedPolled => last.sent = last.pre.queue

C27_Witness ==
    /\ Polled
    /\ last.peer = "server"
    /\ last.pre.req = "ServerAwaitNegotiateResponse"
    /\ hist["server"].emitted = <<encode("Negotiate")>>
    /\ last.pre.queue # <<>>
    /\ last.sent = <<>>
    /\ last.ret = "Retain"

\* the most recent call was a push through subscription last.via
Pushed == last.op = "push"

\* C28: the queue never holds more than its capacity; a push while the
\* Subscriber exists returns true and, into a full queue, evicts the oldest
\* value, keeps the new one last, adds one to the lag of the subscription
\* used and notifies nobody, while into a queue with room it appends the
\* value, sets that lag to 0 and notifies one consumer; nothing else changes.
C28_PushBounded ==
    /\ \A p \in Peers : Len(peers[p].queue) <= BufSize
    /\ (Pushed /\ Alive(last.pre)) =>
          /\ last.ret = "true"
          /\ Len(last.pre.queue) = BufSize =>
                /\ Now.queue = Append(Tail(last.pre.queue), last.data)
                /\ Now.lag[last.via] = last.pre.lag[last.via] + 1
                /\ last.signalled = {}
          /\ Len(last.pre.queue) < BufSize =>
                /\ Now.queue = Append(last.pre.queue, last.data)
                /\ Now.lag[last.via] = 0
                /\ last.signalled = {"notify"}
          /\ Now = [last.pre EXCEPT !.queue = Now.queue,
                                    !.lag[last.via] = Now.lag[last.via]]

C28_Witness ==
    /\ Pushed
    /\ Alive(last.pre)
    /\ last.via = "clone"
    /\ Len(last.pre.queue) = BufSize
    /\ last.pre.queue[1] # last.data
    /\ last.pre.lag["packets_to_send"] > 0
    /\ Now.lag["clone"] = 1
    /\ Now.queue[Len(Now.queue)] = last.data

\* the most recent call was increment_publishers or decrement_publishers
Counted == last.op \in {"increment_publishers", "decrement_publishers"}

\* C29: once the Subscriber is gone a push returns false and changes
\* nothing, and increment_publishers and decrement_publishers leave the
\* producer count and the queue alone; while it exists a push returns true,
\* and the producer count is the number of increment_publishers calls minus
\* the number of decrement_publishers calls made while it existed.
C29_DeadSubscriber ==
    /\ (Pushed /\ ~Alive(last.pre)) =>
          last.ret = "false" /\ Now = last.pre /\ NoEffects
    /\ (Pushed /\ Alive(last.pre)) => last.ret = "true"
    /\ (Counted /\ ~Alive(last.pre)) =>
          /\ Now.pub_count = last.pre.pub_count
          /\ Now.queue = last.pre.queue
          /\ NoEffects
    /\ (Counted /\ Alive(last.pre)) =>
          Now.pub_count = last.pre.pub_count
                          + (IF last.op = "increment_publishers" THEN 1 ELSE -1)
    /\ \A p \in Peers :
          /\ peers[p].pub_count = hist[p].incs - hist[p].decs
          /\ peers[p].pub_count >= 0

C29_Witness ==
    /\ last.op = "decrement_publishers"
    /\ ~Alive(last.pre)
    /\ last.pre.pub_count > 0
    /\ last.pre.queue # <<>>
    /\ Now.pub_count = last.pre.pub_count
    /\ hist[last.peer].decs = 0

\* application code holds a subscription through which a push would succeed
HoldsSink(s) == Alive(s) /\ s.held # {}

\* C30 as stated: a Connected poll never returns Drop while application code
\* holds the handle's outbound subscription or a clone of it.
C30_SinkKeepsPeer ==
    (ConnectedPolled /\ HoldsSink(last.pre)) => last.ret = "Retain"

\* C30: the producer count of a live Subscriber is the number of
\* subscriptions a Publisher has accepted and not yet released; cloning,
\* dropping or pushing through a subscription does not change it.  A
\* Connected poll retains the peer while a Publisher is registered or the
\* router mapping is not empty, and returns Drop when neither is the case,
\* also while application code holds a subscription it could push through.
C30_RegisteredProducerKeepsPeer ==
    /\ \A p \in Peers :
          Alive(peers[p]) => peers[p].pub_count = Cardinality(peers[p].registered)
    /\ last.op \in {"clone", "drop", "push"} => Now.pub_count = last.pre.pub_count
    /\ (ConnectedPolled /\ last.pre.registered # {}) => last.ret = "Retain"
    /\ (ConnectedPolled /\ last.pre.packets_router # {}) => last.ret = "Retain"
    /\ (ConnectedPolled /\ last.pre.registered = {} /\ last.pre.packets_router = {}) =>
          last.ret = "Drop"

C30_Witness ==
    /\ ConnectedPolled
    /\ HoldsSink(last.pre)
    /\ last.pre.held = Handles
    /\ last.pre.registered = {}
    /\ hist[last.peer].incs > 0
    /\ last.pre.queue # <<>>
    /\ last.ret = "Drop"
    /\ ~Alive(Now)

====
